---- MODULE Spec2Model ----
(***************************************************************************)
(* Model of entrypoint.py: the main thread, the issuance thread            *)
(* (obtain_cert) and the renewal thread (run_renewer), coordinated by the  *)
(* two class-level locks Nginx.start_lock and Certbot.done_lock, the nginx *)
(* child process and the files the program tests, writes and removes.      *)
(* Each action is one statement (or one call) of the source; the pc values *)
(* carry the source line of the statement that runs next.                  *)
(***************************************************************************)
EXTENDS Integers, Sequences, FiniteSets, TLC

VARIABLES
    environ,      \* os.environ, read by parse_environment
    files,        \* the paths that exist in the file system
    config,       \* the Config object main builds (NoConfig before that)
    startLocked,  \* Nginx.start_lock is held
    doneLocked,   \* Certbot.done_lock is held
    handle,       \* Nginx.handle: None or the pid of the nginx child
    processes,    \* Process.processes: the tracked handles, in spawn order
    procState,    \* per pid: "running", "exited" (not yet waited), "reaped", "killed"
    mainPc,       \* position of the main thread
    obtainPc,     \* position of the obtain_cert thread
    renewPc,      \* position of the run_renewer thread
    exited,       \* the interpreter has exited
    exitStatus,   \* its exit status (meaningful once exited)
    renewals,     \* number of certbot renew invocations (saturates at MaxRenewals)
    lastRenewOk,  \* outcome of the latest certbot renew
    happened,     \* history: the kinds of event that have occurred so far
    files0,       \* history: the file system at startup
    sigkills,     \* the pids the latest Process.kill_all sent SIGKILL to
    killCalls,    \* number of Process.kill_all runs (capped at MaxKillCalls)
    issueCmd,     \* Certbot.args as certbot certonly was invoked with them
    renewCmd,     \* the command list of the latest certbot renew
    releases      \* per release statement (source line): times it released its lock

vars == <<environ, files, config, startLocked, doneLocked, handle, processes,
          procState, mainPc, obtainPc, renewPc, exited, exitStatus, renewals,
          lastRenewOk, happened, files0,
                   sigkills, killCalls, issueCmd, renewCmd, releases>>

\* ---------------------------------------------------------------- bounds
MaxRenewals == 2

\* the registry specification: tracked processes and Process.kill_all runs
MaxProcs == 3

MaxKillCalls == 2

\* ------------------------------------------------------------- constants
None == "None"

LE_BASE_DIR == "/etc/letsencrypt/live"

FULL_CHAIN == "fullchain.pem"

NGINX_CONF_DIR == "/etc/nginx/conf.d"

\* Nginx.config_path, as <<directory, name, suffix>>
config_path == <<NGINX_CONF_DIR, "reverse_proxy", ".conf">>

\* the values the environment variables are drawn from
DomainVals == {None, "", "a.com", "b.org"}

EmailVals == {None, "", "a@example.com"}

FlagVals == {None, "", "1"}

ServerVals == {None, "", "https://acme.test"}

EnvKeys == {"DOMAIN", "EMAIL", "SERVER", "STAGING", "DEBUG"}

\* os.environ as os.getenv sees it: a key that is not set reads as None
Environments ==
    { [k \in EnvKeys |->
         CASE k = "DOMAIN" -> d
           [] k = "EMAIL" -> e
           [] k = "SERVER" -> s
           [] k = "STAGING" -> g
           [] k = "DEBUG" -> b] :
      d \in DomainVals, e \in EmailVals, s \in ServerVals, g \in FlagVals, b \in FlagVals }

\* Nginx.handle = None
NoHandle == 0

Domains == DomainVals \ {None, ""}

NoConfig == [debug |-> None, domain |-> None, email |-> None,
             server |-> None, staging |-> None]

\* ------------------------------------------------------- pure functions
\* Python truthiness of what os.getenv returns: None and "" are false
Truthy(v) == v # None /\ v # ""

live_dir_path(domain, path) == <<LE_BASE_DIR, domain, path>>

\* the file create_nginx_config_file writes for a domain
served_config_path(domain) == <<NGINX_CONF_DIR, domain, ".conf">>

path_exists(fs, p) == p \in fs

certs_exist_Plain(fs, domain) == path_exists(fs, live_dir_path(domain, FULL_CHAIN))

certs_exist(fs, domain) == ~ path_exists(fs, live_dir_path(domain, FULL_CHAIN))

parse_environment_NoEmailCheck(env) ==
    IF ~ Truthy(env["DOMAIN"])
    THEN [ok |-> FALSE, config |-> NoConfig]
    ELSE [ok |-> TRUE,
          config |-> [email |-> env["EMAIL"], domain |-> env["DOMAIN"],
                      server |-> env["SERVER"], staging |-> env["STAGING"],
                      debug |-> env["DEBUG"]]]

\* ok = FALSE stands for fail_with_error_message (sys.exit(1)) having been called
parse_environment(env) ==
    IF ~ Truthy(env["DOMAIN"]) \/ ~ Truthy(env["EMAIL"])
    THEN [ok |-> FALSE, config |-> NoConfig]
    ELSE [ok |-> TRUE,
          config |-> [email |-> env["EMAIL"], domain |-> env["DOMAIN"],
                      server |-> env["SERVER"], staging |-> env["STAGING"],
                      debug |-> env["DEBUG"]]]

certbot_args_AlwaysStaging(cfg) ==
    {<<"--domain", cfg.domain>>, <<"--email", cfg.email>>,
     <<"--standalone", None>>, <<"--non-interactive", None>>,
     <<"--agree-tos", None>>, <<"--must-staple", None>>, <<"--staging", None>>}
    \cup (IF Truthy(cfg.debug) THEN {<<"-vvv", "--text">>} ELSE {})
    \cup (IF Truthy(cfg.server) THEN {<<"--server", cfg.server>>} ELSE {})
    \cup {<<"--preferred-challenges", "http-01">>}

\* Certbot.__init__ (109-133): the dict self.args, as the set of its
\* <<key, value>> items; add_arg(key) leaves the value None, and a key added
\* twice is kept once
certbot_args(cfg) ==
    {<<"--domain", cfg.domain>>, <<"--email", cfg.email>>,
     <<"--standalone", None>>, <<"--non-interactive", None>>,
     <<"--agree-tos", None>>, <<"--must-staple", None>>}
    \cup (IF Truthy(cfg.staging) THEN {<<"--staging", None>>} ELSE {})
    \cup (IF Truthy(cfg.debug) THEN {<<"-vvv", "--text">>} ELSE {})
    \cup (IF Truthy(cfg.server) THEN {<<"--server", cfg.server>>} ELSE {})
    \cup {<<"--preferred-challenges", "http-01">>}

\* run_renewer (314-316): the command list of a renewal
renew_cmd(cfg) ==
    <<"certbot", "renew", "--pre-hook", "nginx -s stop">>
    \o (IF Truthy(cfg.debug) THEN <<"--force-renewal">> ELSE <<>>)

\* Process.kill_all (209-211): the handles it calls Process.kill on, those
\* whose poll() is None
kill_targets(ps) == {i \in DOMAIN ps : ps[i] = "running"}

kill_all_FirstOnly(ps) ==
    [i \in DOMAIN ps |->
        IF ps[i] = "running" /\ \A j \in DOMAIN ps : ps[j] = "running" => i <= j
        THEN "killed"
        ELSE IF ps[i] = "exited" THEN "reaped"
        ELSE ps[i]]

\* Process.kill_all on the per-pid states: every tracked handle whose poll()
\* is None is killed; poll() reaps a handle that has exited
kill_all(ps) ==
    [i \in DOMAIN ps |->
        IF ps[i] = "running" THEN "killed"
        ELSE IF ps[i] = "exited" THEN "reaped"
        ELSE ps[i]]

Events == {"bootstrap_written", "server_started", "ready_opened", "issuer_invoked",
           "issue_ok", "issue_failed", "bootstrap_removed", "served_written",
           "server_reloaded", "settled_opened", "renew_attempt", "renew_failed",
           "prehook_stop", "release_unlocked"}

\* the statements that release a lock: Nginx.start (166), obtain_cert (300,
\* 301) and main (352)
ReleaseLines == {"166", "300", "301", "352"}

\* ------------------------------------------------------------------ Init
Init ==
    /\ environ \in Environments
    /\ files \in SUBSET {live_dir_path(d, FULL_CHAIN) : d \in Domains}
    /\ files0 = files
    /\ config = NoConfig
    /\ startLocked = FALSE
    /\ doneLocked = FALSE
    /\ handle = NoHandle
    /\ processes = <<>>
    /\ procState = <<>>
    /\ mainPc = "m328"
    /\ obtainPc = "unstarted"
    /\ renewPc = "unstarted"
    /\ exited = FALSE
    /\ exitStatus = 0
    /\ renewals = 0
    /\ lastRenewOk = TRUE
    /\ happened = {}
    /\ sigkills = {}
    /\ killCalls = 0
    /\ issueCmd = {}
    /\ renewCmd = <<>>
    /\ releases = [l \in ReleaseLines |-> 0]

\* ----------------------------------------------------------- main thread
\* threading.Lock.release: releasing an unlocked lock raises thread.error
CanRelease(locked) == locked

\* line 328: Nginx.start_lock.acquire()
MainAcquireStartLock ==
    /\ ~ exited /\ mainPc = "m328"
    /\ ~ startLocked
    /\ startLocked' = TRUE
    /\ mainPc' = "m329"
    /\ UNCHANGED <<environ, files, config, doneLocked, handle, processes, procState,
                   obtainPc, renewPc, exited, exitStatus, renewals, lastRenewOk,
                   happened, files0,
                   sigkills, killCalls, issueCmd, renewCmd, releases>>

MainAcquireDoneLock_NoAcquire ==
    /\ ~ exited /\ mainPc = "m329"
    /\ UNCHANGED doneLocked
    /\ mainPc' = "m331"
    /\ UNCHANGED <<environ, files, config, startLocked, handle, processes, procState,
                   obtainPc, renewPc, exited, exitStatus, renewals, lastRenewOk,
                   happened, files0,
                   sigkills, killCalls, issueCmd, renewCmd, releases>>

\* line 329: Certbot.done_lock.acquire()
MainAcquireDoneLock ==
    /\ ~ exited /\ mainPc = "m329"
    /\ ~ doneLocked
    /\ doneLocked' = TRUE
    /\ mainPc' = "m331"
    /\ UNCHANGED <<environ, files, config, startLocked, handle, processes, procState,
                   obtainPc, renewPc, exited, exitStatus, renewals, lastRenewOk,
                   happened, files0,
                   sigkills, killCalls, issueCmd, renewCmd, releases>>

\* lines 331-333: atexit.register(Process.kill_all); config = parse_environment().
\* A missing DOMAIN or EMAIL is sys.exit(1) in the main thread: SystemExit ends
\* the interpreter with status 1, after the atexit hook has run.
MainParseEnvironment ==
    /\ ~ exited /\ mainPc = "m331"
    /\ LET r == parse_environment(environ) IN
         IF r.ok
         THEN /\ config' = r.config
              /\ mainPc' = "m335"
              /\ UNCHANGED <<exited, exitStatus, procState, sigkills, killCalls>>
         ELSE /\ exited' = TRUE
              /\ exitStatus' = 1
              /\ procState' = kill_all(procState)
              /\ sigkills' = kill_targets(procState)
              /\ killCalls' = killCalls + 1
              /\ mainPc' = "exited"
              /\ UNCHANGED config
    /\ UNCHANGED <<environ, files, startLocked, doneLocked, handle, processes,
                   obtainPc, renewPc, renewals, lastRenewOk, happened, files0, issueCmd, renewCmd, releases>>

\* line 335: threading.Thread(target=run_renewer, args=(config,)).start()
MainStartRenewer ==
    /\ ~ exited /\ mainPc = "m335"
    /\ renewPc' = "r310"
    /\ mainPc' = "m342"
    /\ UNCHANGED <<environ, files, config, startLocked, doneLocked, handle, processes,
                   procState, obtainPc, exited, exitStatus, renewals, lastRenewOk,
                   happened, files0,
                   sigkills, killCalls, issueCmd, renewCmd, releases>>

\* line 342: if certs_exist(domain): the issuance branch, else line 347
MainCertsExist ==
    /\ ~ exited /\ mainPc = "m342"
    /\ mainPc' = IF certs_exist(files, config.domain) THEN "m343" ELSE "m352"
    /\ UNCHANGED <<environ, files, config, startLocked, doneLocked, handle, processes,
                   procState, obtainPc, renewPc, exited, exitStatus, renewals,
                   lastRenewOk, happened, files0,
                   sigkills, killCalls, issueCmd, renewCmd, releases>>

\* line 343: Nginx.write_proxy_config()
MainWriteProxyConfig ==
    /\ ~ exited /\ mainPc = "m343"
    /\ files' = files \cup {config_path}
    /\ happened' = happened \cup {"bootstrap_written"}
    /\ mainPc' = "m344"
    /\ UNCHANGED <<environ, config, startLocked, doneLocked, handle, processes,
                   procState, obtainPc, renewPc, exited, exitStatus, renewals,
                   lastRenewOk, files0,
                   sigkills, killCalls, issueCmd, renewCmd, releases>>

\* line 344: threading.Thread(target=obtain_cert, args=(config,)).start()
MainStartObtain ==
    /\ ~ exited /\ mainPc = "m344"
    /\ obtainPc' = "o295"
    /\ mainPc' = "m345"
    /\ UNCHANGED <<environ, files, config, startLocked, doneLocked, handle, processes,
                   procState, renewPc, exited, exitStatus, renewals, lastRenewOk,
                   happened, files0,
                   sigkills, killCalls, issueCmd, renewCmd, releases>>

\* Nginx.start is called at line 345 and at line 354
StartSites == {"m345", "m354"}

AtRelease(site) == IF site = "m345" THEN "m345_166" ELSE "m354_166"

AtWait(site) == IF site = "m345" THEN "m345_167" ELSE "m354_167"

\* line 345 returns to line 347 (a log record, then line 352); line 354 ends main
AfterStart(site) == IF site = "m345" THEN "m352" ELSE "done"

NginxStartSpawn_NoHandleCheck(site) ==
    /\ ~ exited /\ mainPc = site
    /\ IF TRUE
       THEN /\ processes' = Append(processes, Len(processes) + 1)
            /\ procState' = Append(procState, "running")
            /\ handle' = Len(processes) + 1
            /\ happened' = happened \cup {"server_started"}
            /\ mainPc' = AtRelease(site)
       ELSE /\ mainPc' = AfterStart(site)
            /\ UNCHANGED <<processes, procState, handle, happened>>
    /\ UNCHANGED <<environ, files, config, startLocked, doneLocked, obtainPc, renewPc,
                   exited, exitStatus, renewals, lastRenewOk, files0,
                   sigkills, killCalls, issueCmd, renewCmd, releases>>

\* lines 164-165 (with Process.start, 189-196): if cls.handle is None, spawn
\* nginx, track the handle and keep it in Nginx.handle; else the call returns
NginxStartSpawn(site) ==
    /\ ~ exited /\ mainPc = site
    /\ IF handle = NoHandle
       THEN /\ processes' = Append(processes, Len(processes) + 1)
            /\ procState' = Append(procState, "running")
            /\ handle' = Len(processes) + 1
            /\ happened' = happened \cup {"server_started"}
            /\ mainPc' = AtRelease(site)
       ELSE /\ mainPc' = AfterStart(site)
            /\ UNCHANGED <<processes, procState, handle, happened>>
    /\ UNCHANGED <<environ, files, config, startLocked, doneLocked, obtainPc, renewPc,
                   exited, exitStatus, renewals, lastRenewOk, files0,
                   sigkills, killCalls, issueCmd, renewCmd, releases>>

\* line 166: cls.start_lock.release()
NginxStartRelease(site) ==
    /\ ~ exited /\ mainPc = AtRelease(site)
    /\ IF CanRelease(startLocked)
       THEN /\ startLocked' = FALSE
            /\ releases' = [releases EXCEPT !["166"] = @ + 1]
            /\ happened' = happened \cup {"ready_opened"}
            /\ mainPc' = AtWait(site)
       ELSE /\ mainPc' = "error"
            /\ happened' = happened \cup {"release_unlocked"}
            /\ UNCHANGED <<startLocked, releases>>
    /\ UNCHANGED <<environ, files, config, doneLocked, handle, processes, procState,
                   obtainPc, renewPc, exited, exitStatus, renewals, lastRenewOk, files0,
                   sigkills, killCalls, issueCmd, renewCmd>>

\* line 167: cls.handle.wait() returns once the nginx process has ended, and
\* reaps it
NginxStartWait(site) ==
    /\ ~ exited /\ mainPc = AtWait(site)
    /\ procState[handle] # "running"
    /\ procState' = [procState EXCEPT ![handle] = "reaped"]
    /\ mainPc' = AfterStart(site)
    /\ UNCHANGED <<environ, files, config, startLocked, doneLocked, handle, processes,
                   obtainPc, renewPc, exited, exitStatus, renewals, lastRenewOk,
                   happened, files0,
                   sigkills, killCalls, issueCmd, renewCmd, releases>>

\* lines 347-352: a log record, then Certbot.done_lock.release()
MainReleaseDoneLock ==
    /\ ~ exited /\ mainPc = "m352"
    /\ IF CanRelease(doneLocked)
       THEN /\ doneLocked' = FALSE
            /\ releases' = [releases EXCEPT !["352"] = @ + 1]
            /\ happened' = happened \cup {"settled_opened"}
            /\ mainPc' = "m353"
       ELSE /\ mainPc' = "error"
            /\ happened' = happened \cup {"release_unlocked"}
            /\ UNCHANGED <<doneLocked, releases>>
    /\ UNCHANGED <<environ, files, config, startLocked, handle, processes, procState,
                   obtainPc, renewPc, exited, exitStatus, renewals, lastRenewOk, files0,
                   sigkills, killCalls, issueCmd, renewCmd>>

\* line 353 (229-252): create_nginx_config_file(domain)
MainCreateConfig ==
    /\ ~ exited /\ mainPc = "m353"
    /\ files' = files \cup {served_config_path(config.domain)}
    /\ happened' = happened \cup {"served_written"}
    /\ mainPc' = "m354"
    /\ UNCHANGED <<environ, config, startLocked, doneLocked, handle, processes,
                   procState, obtainPc, renewPc, exited, exitStatus, renewals,
                   lastRenewOk, files0,
                   sigkills, killCalls, issueCmd, renewCmd, releases>>

MainStep ==
    \/ MainAcquireStartLock
    \/ MainAcquireDoneLock
    \/ MainParseEnvironment
    \/ MainStartRenewer
    \/ MainCertsExist
    \/ MainWriteProxyConfig
    \/ MainStartObtain
    \/ \E site \in StartSites : NginxStartSpawn(site)
    \/ \E site \in StartSites : NginxStartRelease(site)
    \/ \E site \in StartSites : NginxStartWait(site)
    \/ MainReleaseDoneLock
    \/ MainCreateConfig

\* ------------------------------------------------- issuance thread (obtain_cert)
ObtainAcquireStartLock_NoWait ==
    /\ ~ exited /\ obtainPc = "o295"
    /\ startLocked' = TRUE
    /\ obtainPc' = "o296"
    /\ UNCHANGED <<environ, files, config, doneLocked, handle, processes, procState,
                   mainPc, renewPc, exited, exitStatus, renewals, lastRenewOk,
                   happened, files0,
                   sigkills, killCalls, issueCmd, renewCmd, releases>>

\* lines 293-295: certbot = Certbot(config); Nginx.start_lock.acquire()
ObtainAcquireStartLock ==
    /\ ~ exited /\ obtainPc = "o295"
    /\ ~ startLocked
    /\ startLocked' = TRUE
    /\ obtainPc' = "o296"
    /\ UNCHANGED <<environ, files, config, doneLocked, handle, processes, procState,
                   mainPc, renewPc, exited, exitStatus, renewals, lastRenewOk,
                   happened, files0,
                   sigkills, killCalls, issueCmd, renewCmd, releases>>

CertbotRun_FailureContinues ==
    /\ ~ exited /\ obtainPc = "o296"
    /\ issueCmd' = certbot_args(config)
    /\ \E ok \in BOOLEAN :
         IF ok
         THEN /\ files' = files \cup {live_dir_path(config.domain, FULL_CHAIN)}
              /\ happened' = happened \cup {"issuer_invoked", "issue_ok"}
              /\ obtainPc' = "o297"
         ELSE /\ happened' = happened \cup {"issuer_invoked", "issue_failed"}
              /\ obtainPc' = "o297"
              /\ UNCHANGED files
    /\ UNCHANGED <<environ, config, startLocked, doneLocked, handle, processes,
                   procState, mainPc, renewPc, exited, exitStatus, renewals,
                   lastRenewOk, files0,
                   sigkills, killCalls, renewCmd, releases>>

\* line 296 (Certbot.run, 138-154): subprocess.check_call(certbot certonly ...).
\* Exit status 0: the issuer has stored the certificate under LE_BASE_DIR.
\* Non-zero: fail_with_error_message calls sys.exit(1) in this thread, and
\* SystemExit raised in a thread other than the main one ends that thread only.
CertbotRun ==
    /\ ~ exited /\ obtainPc = "o296"
    /\ issueCmd' = certbot_args(config)
    /\ \E ok \in BOOLEAN :
         IF ok
         THEN /\ files' = files \cup {live_dir_path(config.domain, FULL_CHAIN)}
              /\ happened' = happened \cup {"issuer_invoked", "issue_ok"}
              /\ obtainPc' = "o297"
         ELSE /\ happened' = happened \cup {"issuer_invoked", "issue_failed"}
              /\ obtainPc' = "sysexit"
              /\ UNCHANGED files
    /\ UNCHANGED <<environ, config, startLocked, doneLocked, handle, processes,
                   procState, mainPc, renewPc, exited, exitStatus, renewals,
                   lastRenewOk, files0,
                   sigkills, killCalls, renewCmd, releases>>

\* line 297 (175-177): Nginx.remove_proxy_config()
ObtainRemoveProxyConfig ==
    /\ ~ exited /\ obtainPc = "o297"
    /\ files' = IF path_exists(files, config_path) THEN files \ {config_path} ELSE files
    /\ happened' = happened \cup {"bootstrap_removed"}
    /\ obtainPc' = "o298"
    /\ UNCHANGED <<environ, config, startLocked, doneLocked, handle, processes,
                   procState, mainPc, renewPc, exited, exitStatus, renewals,
                   lastRenewOk, files0,
                   sigkills, killCalls, issueCmd, renewCmd, releases>>

\* line 298 (229-252): create_nginx_config_file(certbot.domain)
ObtainCreateConfig ==
    /\ ~ exited /\ obtainPc = "o298"
    /\ files' = files \cup {served_config_path(config.domain)}
    /\ happened' = happened \cup {"served_written"}
    /\ obtainPc' = "o299"
    /\ UNCHANGED <<environ, config, startLocked, doneLocked, handle, processes,
                   procState, mainPc, renewPc, exited, exitStatus, renewals,
                   lastRenewOk, files0,
                   sigkills, killCalls, issueCmd, renewCmd, releases>>

\* The outcomes of Popen.send_signal (os.kill(pid, sig)) on Nginx.handle:
\* AttributeError while the handle is None; delivery while the child runs or
\* is a zombie; once the child has been reaped the pid is free, so os.kill
\* raises OSError(ESRCH) or, if the pid has been reused, returns.
SendSignalOutcomes ==
    IF handle = NoHandle THEN {"raise"}
    ELSE IF procState[handle] \in {"running", "exited"} THEN {"sent"}
    ELSE {"raise", "sent"}

\* line 299 (180-182): Nginx.reload()
ObtainReload ==
    /\ ~ exited /\ obtainPc = "o299"
    /\ \E r \in SendSignalOutcomes :
         IF r = "sent"
         THEN /\ happened' = happened \cup {"server_reloaded"}
              /\ obtainPc' = "o300"
         ELSE /\ obtainPc' = "error"
              /\ UNCHANGED happened
    /\ UNCHANGED <<environ, files, config, startLocked, doneLocked, handle, processes,
                   procState, mainPc, renewPc, exited, exitStatus, renewals,
                   lastRenewOk, files0,
                   sigkills, killCalls, issueCmd, renewCmd, releases>>

\* line 300: Nginx.start_lock.release()
ObtainReleaseStartLock ==
    /\ ~ exited /\ obtainPc = "o300"
    /\ IF CanRelease(startLocked)
       THEN /\ startLocked' = FALSE
            /\ UNCHANGED happened
            /\ releases' = [releases EXCEPT !["300"] = @ + 1]
            /\ obtainPc' = "o301"
       ELSE /\ obtainPc' = "error"
            /\ happened' = happened \cup {"release_unlocked"}
            /\ UNCHANGED <<startLocked, releases>>
    /\ UNCHANGED <<environ, files, config, doneLocked, handle, processes, procState,
                   mainPc, renewPc, exited, exitStatus, renewals, lastRenewOk, files0,
                   sigkills, killCalls, issueCmd, renewCmd>>

\* line 301: Certbot.done_lock.release()
ObtainReleaseDoneLock ==
    /\ ~ exited /\ obtainPc = "o301"
    /\ IF CanRelease(doneLocked)
       THEN /\ doneLocked' = FALSE
            /\ releases' = [releases EXCEPT !["301"] = @ + 1]
            /\ happened' = happened \cup {"settled_opened"}
            /\ obtainPc' = "done"
       ELSE /\ obtainPc' = "error"
            /\ happened' = happened \cup {"release_unlocked"}
            /\ UNCHANGED <<doneLocked, releases>>
    /\ UNCHANGED <<environ, files, config, startLocked, handle, processes, procState,
                   mainPc, renewPc, exited, exitStatus, renewals, lastRenewOk, files0,
                   sigkills, killCalls, issueCmd, renewCmd>>

ObtainStep ==
    \/ ObtainAcquireStartLock
    \/ CertbotRun
    \/ ObtainRemoveProxyConfig
    \/ ObtainCreateConfig
    \/ ObtainReload
    \/ ObtainReleaseStartLock
    \/ ObtainReleaseDoneLock

\* ------------------------------------------------- renewal thread (run_renewer)
\* line 310: Certbot.done_lock.acquire()
RenewAcquireDoneLock ==
    /\ ~ exited /\ renewPc = "r310"
    /\ ~ doneLocked
    /\ doneLocked' = TRUE
    /\ renewPc' = "r311"
    /\ UNCHANGED <<environ, files, config, startLocked, handle, processes, procState,
                   mainPc, obtainPc, exited, exitStatus, renewals, lastRenewOk,
                   happened, files0,
                   sigkills, killCalls, issueCmd, renewCmd, releases>>

RenewAcquireStartLock_NoWait ==
    /\ ~ exited /\ renewPc = "r311"
    /\ startLocked' = TRUE
    /\ renewPc' = "r314"
    /\ UNCHANGED <<environ, files, config, doneLocked, handle, processes, procState,
                   mainPc, obtainPc, exited, exitStatus, renewals, lastRenewOk,
                   happened, files0,
                   sigkills, killCalls, issueCmd, renewCmd, releases>>

\* line 311: Nginx.start_lock.acquire()
RenewAcquireStartLock ==
    /\ ~ exited /\ renewPc = "r311"
    /\ ~ startLocked
    /\ startLocked' = TRUE
    /\ renewPc' = "r314"
    /\ UNCHANGED <<environ, files, config, doneLocked, handle, processes, procState,
                   mainPc, obtainPc, exited, exitStatus, renewals, lastRenewOk,
                   happened, files0,
                   sigkills, killCalls, issueCmd, renewCmd, releases>>

\* certbot renew runs its pre-hook ("nginx -s stop") when it renews a
\* certificate: never while no certificate is stored, always under
\* --force-renewal (config.debug) when one is, otherwise when one is due
PreHookChoices ==
    IF \A d \in Domains : ~ path_exists(files, live_dir_path(d, FULL_CHAIN))
    THEN {FALSE}
    ELSE IF Truthy(config.debug) THEN {TRUE} ELSE BOOLEAN

\* the per-pid states after "nginx -s stop"
NginxStopped(ps) == [i \in DOMAIN ps |-> IF ps[i] = "running" THEN "exited" ELSE ps[i]]

Min(a, b) == IF a < b THEN a ELSE b

RenewAttempt_FailureEndsLoop ==
    /\ ~ exited /\ renewPc = "r314"
    /\ \E hook \in PreHookChoices, ok \in BOOLEAN :
         /\ procState' = IF hook THEN NginxStopped(procState) ELSE procState
         /\ lastRenewOk' = ok
         /\ happened' = happened \cup {"renew_attempt"}
                          \cup (IF ok THEN {} ELSE {"renew_failed"})
                          \cup (IF hook /\ NginxStopped(procState) # procState
                                THEN {"prehook_stop"} ELSE {})
         /\ renewPc' = IF ok THEN "r324" ELSE "error"
    /\ renewCmd' = renew_cmd(config)
    /\ renewals' = Min(renewals + 1, MaxRenewals)
    /\ UNCHANGED <<environ, files, config, startLocked, doneLocked, handle, processes,
                   mainPc, obtainPc, exited, exitStatus, files0,
                   sigkills, killCalls, issueCmd, releases>>

\* lines 314-323: subprocess.check_output(certbot renew --pre-hook "nginx -s stop"
\* [--force-renewal]); a CalledProcessError is logged and the loop goes on
RenewAttempt ==
    /\ ~ exited /\ renewPc = "r314"
    /\ \E hook \in PreHookChoices, ok \in BOOLEAN :
         /\ procState' = IF hook THEN NginxStopped(procState) ELSE procState
         /\ lastRenewOk' = ok
         /\ happened' = happened \cup {"renew_attempt"}
                          \cup (IF ok THEN {} ELSE {"renew_failed"})
                          \cup (IF hook /\ NginxStopped(procState) # procState
                                THEN {"prehook_stop"} ELSE {})
    /\ renewCmd' = renew_cmd(config)
    /\ renewals' = Min(renewals + 1, MaxRenewals)
    /\ renewPc' = "r324"
    /\ UNCHANGED <<environ, files, config, startLocked, doneLocked, handle, processes,
                   mainPc, obtainPc, exited, exitStatus, files0,
                   sigkills, killCalls, issueCmd, releases>>

\* line 324: time.sleep(3600), then the next cycle
RenewSleep ==
    /\ ~ exited /\ renewPc = "r324"
    /\ renewPc' = "r314"
    /\ UNCHANGED <<environ, files, config, startLocked, doneLocked, handle, processes,
                   procState, mainPc, obtainPc, exited, exitStatus, renewals,
                   lastRenewOk, happened, files0,
                   sigkills, killCalls, issueCmd, renewCmd, releases>>

RenewStep ==
    \/ RenewAcquireDoneLock
    \/ RenewAcquireStartLock
    \/ RenewAttempt
    \/ RenewSleep

\* ----------------------------------------------------------- environment
\* the nginx child (NGINX_CMD, run in the foreground) ends on its own
NginxExit ==
    /\ ~ exited
    /\ \E i \in DOMAIN procState :
         /\ procState[i] = "running"
         /\ procState' = [procState EXCEPT ![i] = "exited"]
    /\ UNCHANGED <<environ, files, config, startLocked, doneLocked, handle, processes,
                   mainPc, obtainPc, renewPc, exited, exitStatus, renewals,
                   lastRenewOk, happened, files0,
                   sigkills, killCalls, issueCmd, renewCmd, releases>>

\* ---------------------------------------------------------- specification
Next == MainStep \/ ObtainStep \/ RenewStep \/ NginxExit

Spec == Init /\ [][Next]_vars

\* every thread that can take a step eventually takes one (the operating
\* system schedules runnable threads; time.sleep returns); nothing is assumed
\* of the nginx child or of the outcome of a certbot run
FairSpec ==
    Spec /\ WF_vars(MainStep) /\ WF_vars(ObtainStep) /\ WF_vars(RenewStep)

TypeOK ==
    /\ environ \in Environments
    /\ startLocked \in BOOLEAN /\ doneLocked \in BOOLEAN
    /\ handle \in 0..Len(processes)
    /\ Len(procState) = Len(processes)
    /\ exited \in BOOLEAN /\ exitStatus \in {0, 1}
    /\ renewals \in 0..MaxRenewals
    /\ happened \subseteq Events
    /\ sigkills \subseteq DOMAIN procState
    /\ killCalls \in 0..MaxKillCalls
    /\ releases \in [ReleaseLines -> 0..1]

\* ----------------------------------------- the process registry on its own
\* Process (185-211) driven directly: any tracked handles, in any state
KillInit ==
    /\ \E n \in 0..MaxProcs :
         /\ processes = [i \in 1..n |-> i]
         /\ procState \in [1..n -> {"running", "exited", "reaped"}]
    /\ environ = [k \in EnvKeys |-> None]
    /\ files = {}
    /\ files0 = {}
    /\ config = NoConfig
    /\ startLocked = FALSE
    /\ doneLocked = FALSE
    /\ handle = NoHandle
    /\ mainPc = "m328"
    /\ obtainPc = "unstarted"
    /\ renewPc = "unstarted"
    /\ exited = FALSE
    /\ exitStatus = 0
    /\ renewals = 0
    /\ lastRenewOk = TRUE
    /\ happened = {}
    /\ sigkills = {}
    /\ killCalls = 0
    /\ issueCmd = {}
    /\ renewCmd = <<>>
    /\ releases = [l \in ReleaseLines |-> 0]

\* Process.start (189-196): Popen, then the handle is appended to the list
ProcessStart ==
    /\ Len(processes) < MaxProcs
    /\ processes' = Append(processes, Len(processes) + 1)
    /\ procState' = Append(procState, "running")
    /\ UNCHANGED <<environ, files, config, startLocked, doneLocked, handle, mainPc,
                   obtainPc, renewPc, exited, exitStatus, renewals, lastRenewOk,
                   happened, files0, sigkills, killCalls, issueCmd, renewCmd, releases>>

\* a tracked process ends on its own
ProcessExit ==
    /\ \E i \in DOMAIN procState :
         /\ procState[i] = "running"
         /\ procState' = [procState EXCEPT ![i] = "exited"]
    /\ UNCHANGED <<environ, files, config, startLocked, doneLocked, handle, processes,
                   mainPc, obtainPc, renewPc, exited, exitStatus, renewals, lastRenewOk,
                   happened, files0, sigkills, killCalls, issueCmd, renewCmd, releases>>

\* Process.kill_all (205-211), with Process.kill (198-203) for each handle
\* whose poll() is None
ProcessKillAll ==
    /\ killCalls < MaxKillCalls
    /\ sigkills' = kill_targets(procState)
    /\ procState' = kill_all(procState)
    /\ killCalls' = killCalls + 1
    /\ UNCHANGED <<environ, files, config, startLocked, doneLocked, handle, processes,
                   mainPc, obtainPc, renewPc, exited, exitStatus, renewals, lastRenewOk,
                   happened, files0, issueCmd, renewCmd, releases>>

KillNext == ProcessStart \/ ProcessExit \/ ProcessKillAll

KillSpec == KillInit /\ [][KillNext]_vars

\* ---------------------------------------------------------------- claims
Happened(e) == e \in happened

\* DOMAIN or EMAIL is absent from the environment
EnvMissing == environ["DOMAIN"] = None \/ environ["EMAIL"] = None

EnvComplete == Truthy(environ["DOMAIN"]) /\ Truthy(environ["EMAIL"])

\* the full-chain artifact of the configured domain existed at startup
CertAtStartup == path_exists(files0, live_dir_path(environ["DOMAIN"], FULL_CHAIN))

PresentPath == EnvComplete /\ CertAtStartup

MissingPath == EnvComplete /\ ~ CertAtStartup

\* C1: the renewal loop has not invoked certbot renew unless Certbot.done_lock
\* has been released and Nginx.start has released Nginx.start_lock
C1_RenewAfterBothGates ==
    (Happened("renew_attempt") \/ renewPc \in {"r314", "r324"})
        => (Happened("settled_opened") /\ Happened("ready_opened"))

C1_Witness == Happened("renew_attempt") /\ MissingPath /\ Happened("issue_ok")

\* C2: certbot certonly has not been invoked unless Nginx.start has spawned the
\* server process and released Nginx.start_lock
C2_IssueAfterServerReady ==
    (Happened("issuer_invoked") \/ obtainPc = "o296")
        => (Happened("server_started") /\ Happened("ready_opened") /\ handle # NoHandle)

C2_Witness == Happened("issuer_invoked")

\* C3 (as claimed): with no certificate at startup and a successful issuance,
\* the events come in the order bootstrap written, server started (ServerReady
\* opened), issuer invoked, bootstrap removed, served configuration written,
\* server reloaded, IssuanceSettled opened
C3_Claim ==
    (MissingPath /\ Happened("issue_ok")) =>
        /\ Happened("bootstrap_written") /\ Happened("server_started")
        /\ Happened("ready_opened")
        /\ Happened("served_written") => Happened("bootstrap_removed")
        /\ Happened("server_reloaded") => Happened("served_written")
        /\ Happened("settled_opened") => Happened("server_reloaded")

\* C4: with the full-chain artifact present at startup, certbot certonly is
\* never invoked and the bootstrap configuration is never written; main
\* releases Certbot.done_lock, then writes the served configuration, then
\* starts the server
C4_PresentPathOrder ==
    PresentPath =>
        /\ ~ Happened("issuer_invoked") /\ obtainPc = "unstarted"
        /\ ~ Happened("bootstrap_written") /\ ~ path_exists(files, config_path)
        /\ Happened("served_written") => Happened("settled_opened")
        /\ Happened("server_started") => Happened("served_written")

C4_Witness == PresentPath /\ Happened("server_started") /\ Happened("ready_opened")

\* C5 (as claimed): once the initial issuance command has exited non-zero, the
\* process has terminated with a non-zero exit status
C5_Claim == Happened("issue_failed") => (exited /\ exitStatus # 0)

\* C6: if DOMAIN or EMAIL is absent, no renewal thread, issuance thread, server
\* process or issuer process is ever started, and once parse_environment has
\* run the process has exited with a non-zero status
C6_MissingEnvExits ==
    EnvMissing =>
        /\ renewPc = "unstarted" /\ obtainPc = "unstarted"
        /\ processes = <<>> /\ handle = NoHandle
        /\ ~ Happened("server_started") /\ ~ Happened("issuer_invoked")
        /\ ~ Happened("renew_attempt")
        /\ mainPc \in {"m328", "m329", "m331", "exited"}
        /\ mainPc = "exited" => (exited /\ exitStatus # 0)

C6_Witness == EnvMissing /\ environ["DOMAIN"] # None /\ exited /\ exitStatus = 1

\* C7: a certbot renew that exits non-zero leaves the loop running: the loop
\* goes to its sleep, and from there to a further renewal attempt; the failing
\* attempt changes no lock, no file and not the exit state of the process
C7_RenewalFailureKeepsLooping ==
    /\ [][(renewPc = "r314" /\ renewPc' # "r314" /\ ~ lastRenewOk')
            => /\ renewPc' = "r324"
               /\ UNCHANGED <<startLocked, doneLocked, files, exited, exitStatus>>]_vars
    /\ [](Happened("renew_failed") => <>(renewPc = "r324"))
    /\ []((renewPc = "r324" /\ ~ lastRenewOk)
            => <>(renewPc = "r314" /\ <>(renewPc = "r324")))

C7_Witness == renewPc = "r324" /\ ~ lastRenewOk /\ renewals = MaxRenewals

\* C8 (as claimed): under fair scheduling the renewal loop eventually makes
\* its first renewal attempt: with the certificate present, once the server
\* has been started; with it missing, once the server has been started and
\* the issuance command has succeeded
C8_Claim ==
    /\ (PresentPath /\ Happened("server_started")) ~> Happened("renew_attempt")
    /\ (MissingPath /\ Happened("server_started") /\ Happened("issue_ok"))
          ~> Happened("renew_attempt")

\* C9 (as claimed): with no certificate at startup, a renewal attempt is made
\* only after the bootstrap configuration was removed, the served
\* configuration written and the server reloaded
C9_Claim ==
    (MissingPath /\ (Happened("renew_attempt") \/ renewPc \in {"r314", "r324"}))
        => /\ Happened("bootstrap_removed")
           /\ Happened("served_written")
           /\ Happened("server_reloaded")

\* C10 (as claimed): certs_exist(domain) is true exactly when the full-chain
\* artifact of the domain exists, in the file system as it is at the call
C10_Claim ==
    \A d \in Domains :
        certs_exist(files, d) = path_exists(files, live_dir_path(d, FULL_CHAIN))

Alive(ps) == {i \in DOMAIN ps : ps[i] = "running"}

\* C11: Process.kill_all sends SIGKILL to exactly the tracked handles whose
\* process is still alive and to none that has exited; after it no tracked
\* process is alive; run again at once it kills nothing
C11_KillAll ==
    /\ [][killCalls' # killCalls =>
            /\ sigkills' = Alive(procState)
            /\ Alive(procState') = {}
            /\ \A i \in DOMAIN procState :
                 procState[i] # "running"
                    => (i \notin sigkills' /\ (procState'[i] = "killed" => procState[i] = "killed"))
            /\ kill_targets(procState') = {}
            /\ kill_all(procState') = procState']_vars
    /\ [](kill_targets(kill_all(procState)) = {})

C11_Witness ==
    /\ killCalls = 2 /\ sigkills = {}
    /\ \E i, j \in DOMAIN procState : procState[i] = "killed" /\ procState[j] = "reaped"

\* the flags every issuance carries
FixedIssueFlags ==
    {<<"--domain", environ["DOMAIN"]>>, <<"--email", environ["EMAIL"]>>,
     <<"--standalone", None>>, <<"--non-interactive", None>>,
     <<"--agree-tos", None>>, <<"--must-staple", None>>,
     <<"--preferred-challenges", "http-01">>}

\* C12 (as claimed): the issuance flags are the fixed ones plus --staging iff
\* STAGING is set, -vvv --text iff DEBUG is set and --server <url> iff SERVER
\* is set; the renewal carries --force-renewal iff DEBUG is set
C12_Claim ==
    /\ Happened("issuer_invoked") =>
         issueCmd = FixedIssueFlags
             \cup (IF environ["STAGING"] # None THEN {<<"--staging", None>>} ELSE {})
             \cup (IF environ["DEBUG"] # None THEN {<<"-vvv", "--text">>} ELSE {})
             \cup (IF environ["SERVER"] # None
                   THEN {<<"--server", environ["SERVER"]>>} ELSE {})
    /\ Happened("renew_attempt") =>
         ((\E i \in DOMAIN renewCmd : renewCmd[i] = "--force-renewal")
             <=> environ["DEBUG"] # None)

\* C12 (amended): as claimed, with "set" read as "set to a non-empty value":
\* a variable set to the empty string adds no flag
C12_FlagSets ==
    /\ Happened("issuer_invoked") =>
         issueCmd = FixedIssueFlags
             \cup (IF Truthy(environ["STAGING"]) THEN {<<"--staging", None>>} ELSE {})
             \cup (IF Truthy(environ["DEBUG"]) THEN {<<"-vvv", "--text">>} ELSE {})
             \cup (IF Truthy(environ["SERVER"])
                   THEN {<<"--server", environ["SERVER"]>>} ELSE {})
    /\ Happened("renew_attempt") =>
         /\ SubSeq(renewCmd, 1, 4) = <<"certbot", "renew", "--pre-hook", "nginx -s stop">>
         /\ (\E i \in DOMAIN renewCmd : renewCmd[i] = "--force-renewal")
               <=> Truthy(environ["DEBUG"])

C12_Witness ==
    /\ Happened("issuer_invoked") /\ Happened("renew_attempt")
    /\ environ["STAGING"] = "" /\ environ["DEBUG"] = "1" /\ Truthy(environ["SERVER"])
    /\ Cardinality(issueCmd) = 9

StartReleases == releases["166"] + releases["300"]

DoneReleases == releases["301"] + releases["352"]

OtherThreadStarted == renewPc # "unstarted" \/ obtainPc # "unstarted"

\* C13 (as claimed): each gate starts closed, is opened exactly once and, once
\* opened, is never closed again
C13_Claim ==
    /\ (OtherThreadStarted /\ StartReleases = 0) => startLocked
    /\ (OtherThreadStarted /\ DoneReleases = 0) => doneLocked
    /\ StartReleases <= 1 /\ DoneReleases <= 1
    /\ StartReleases >= 1 => ~ startLocked
    /\ DoneReleases >= 1 => ~ doneLocked

\* C13 (amended): each gate starts closed (main holds both locks before any
\* other thread is started); each release statement releases at most once, so
\* start_lock is released at most twice (Nginx.start, then obtain_cert) and
\* done_lock at most twice (obtain_cert, main); the first release of
\* start_lock is the one in Nginx.start
C13_GatesStartClosed ==
    /\ (OtherThreadStarted /\ StartReleases = 0) => startLocked
    /\ (OtherThreadStarted /\ DoneReleases = 0) => doneLocked
    /\ \A l \in ReleaseLines : releases[l] <= 1
    /\ releases["300"] = 1 => releases["166"] = 1

\* a lock that was released twice and is held again, by the renewal loop
C13_Witness ==
    /\ StartReleases = 2 /\ DoneReleases = 2
    /\ startLocked /\ renewPc = "r324"

\* C14: the server process is spawned at most once; a call of Nginx.start
\* made when a handle exists spawns nothing, releases no lock and returns
C14_SpawnedOnce ==
    /\ [](Len(processes) <= 1 /\ releases["166"] <= 1)
    /\ [][(mainPc \in StartSites /\ handle # NoHandle /\ mainPc' # mainPc)
            => /\ mainPc' = AfterStart(mainPc)
               /\ UNCHANGED <<processes, procState, handle, startLocked, doneLocked,
                              releases>>]_vars

\* the first call has returned and the second one has been made
C14_Witness ==
    /\ mainPc = "done" /\ Happened("bootstrap_written")
    /\ Len(processes) = 1 /\ releases["166"] = 1

\* C15: Nginx.reload runs only once Nginx.start has assigned Nginx.handle
C15_ReloadHasHandle ==
    (obtainPc = "o299" \/ Happened("server_reloaded"))
        => (handle # NoHandle /\ Happened("server_started"))

C15_Witness == Happened("server_reloaded") /\ obtainPc = "o300"

ServedConfigOnDisk == \E d \in Domains : path_exists(files, served_config_path(d))

\* C16 (as claimed): the bootstrap artifact and the served artifact never exist
\* together, and the bootstrap artifact is not written once the served one was
C16_Claim ==
    /\ ~ (path_exists(files, config_path) /\ ServedConfigOnDisk)
    /\ mainPc = "m343" => ~ Happened("served_written")

\* C17 (as claimed): the served configuration is written only if the
\* certificate was present at startup or the issuance command has succeeded
C17_Claim ==
    (Happened("served_written") \/ ServedConfigOnDisk)
        => (CertAtStartup \/ Happened("issue_ok"))

ServerRunning == \E i \in DOMAIN procState : procState[i] = "running"

\* C18 (as claimed): once a renewal's pre-hook has stopped the proxy server,
\* the server is eventually running again
C18_Claim == Happened("prehook_stop") ~> ServerRunning

\* C19 (as claimed): no thread releases Nginx.start_lock or Certbot.done_lock
\* while that lock is not held
C19_Claim ==
    /\ ~ Happened("release_unlocked")
    /\ mainPc # "error"

\* C20: once the initial issuance command has failed, the issuance thread has
\* ended at Certbot.run, still holding Nginx.start_lock and without releasing
\* Certbot.done_lock or touching the configuration, and the renewal loop makes
\* no renewal attempt
C20_FailedIssuanceBlocksRenewal ==
    Happened("issue_failed") =>
        /\ obtainPc = "sysexit"
        /\ startLocked
        /\ releases["300"] = 0 /\ releases["301"] = 0
        /\ ~ Happened("bootstrap_removed") /\ ~ Happened("server_reloaded")
        /\ path_exists(files, config_path)
        /\ ~ Happened("renew_attempt") /\ renewPc \in {"r310", "r311"}

\* the failure, then the server ending and main running through to its end
C20_Witness ==
    Happened("issue_failed") /\ mainPc = "done" /\ renewPc = "r311"

====
